---------------------------- MODULE Spec2Model ----------------------------
(***************************************************************************)
(* Model of ligeia's change store and implicit forest.                     *)
(*                                                                         *)
(*   ChangeBlockList  (src/ligeia-core/src/waves/change.rs)                *)
(*   ImplicitForest   (src/ligeia-core/src/implicit_forest.rs)             *)
(*   Logic units      (src/ligeia-core/src/logic.rs)                       *)
(*                                                                         *)
(* Rust offsets and indices are 0-based; a byte at Rust offset o is        *)
(* data[o + 1] here, and vals[i] in Rust is vals[s][i + 1] here.           *)
(***************************************************************************)
EXTENDS Integers, Sequences, FiniteSets, TLC

\* ------------------------------------------------------------------ bounds

\* Storage ids the callers use: 0 .. MaxStorageId.
MaxStorageId == 1
\* Largest width (in logic units) a storage is declared with.
MaxWidth == 1
\* add_storage calls in one run of Spec.
MaxDeclares == 2
\* push_timesteps calls in one run of Spec.
MaxTimesteps == 2
\* Largest timestep value pushed.
MaxTime == 2
\* push_get calls in one run of Spec.
MaxAppends == 3
\* push_get calls on storage 0 in one run of SpecChain.
MaxChainAppends == 300
\* push_get calls on the other storages in one run of SpecChain.
MaxChainOther == 1

\* leaves of the largest forest whose ranges SpecQuery goes through
MaxLeaves == 33

\* the widest storage SpecFill declares, and the push_get calls it makes
MaxFillWidth == 5

MaxFillAppends == 2

\* the widest LogicArray SpecUnits sets a unit of
MaxUnitsWidth == 9

\* timesteps and appends to declared storages of one run of SpecLookup
MaxLookupTimesteps == 2

MaxLookupAppends == 3

\* addresses the OS and Global hand out, allocations held at once, and the
\* allocator calls of one run of SpecAlloc
MaxAddr == 3

MaxLive == 2

MaxAllocCalls == 5

\* threads sharing one allocator, and the calls they make in SpecThreads
MaxThreads == 2

MaxThreadCalls == 4

\* calls of modify and deref in one run of SpecLazy
MaxLazyCalls == 4

\* the width of the wide storage, and the values ingested in one run of
\* SpecIngest
MaxNineWidth == 5112

\* the largest item pushed onto the VarMmapVec, and the pushes of one run of
\* SpecVec
MaxItemSize == 9000

MaxPushes == 5

\* scope ids, and add_scope calls in one run of SpecScopes
MaxScopeId == 3

MaxScopeCalls == 4

MaxIngestValues == 3

\* ------------------------------------------------------- program constants

CHANGES_PER_BLOCK == 128
\* mem::size_of::<BlockHeader>(): Option<NonZeroUsize> + usize
HEADER_SIZE == 16
\* mem::align_of::<BlockHeader>()
HEADER_ALIGN == 8
\* mem::size_of::<u32>(), the timestep index in front of every change
TS_INDEX_SIZE == 4
\* <Four as Logic>::PER_BYTE
PER_BYTE == 4

StorageIds == 0..MaxStorageId
Widths == 1..MaxWidth
Times == 1..MaxTime
\* Logic units the callers write (Four::Zero, Four::One).
FillUnits == {0, 1}

\* Option::None of a storage_infos slot, and of a returned value.
None == [none |-> TRUE]
\* The value of a call that panicked.
Panic == [panic |-> TRUE]

\* ------------------------------------------------------------ byte helpers

\* Zero bytes, as many as the largest block takes.
ZeroRun ==
    [i \in 1..(HEADER_SIZE + (TS_INDEX_SIZE + MaxWidth + MaxFillWidth)
                                * CHANGES_PER_BLOCK) |-> 0]

\* What a Vec that does not clear the bytes it grows by could hold.
GarbageRun == [i \in 1..Len(ZeroRun) |-> 255]

RECURSIVE to_le_bytes(_, _)
to_le_bytes(n, k) ==
    IF k = 0 THEN <<>> ELSE <<n % 256>> \o to_le_bytes(n \div 256, k - 1)

RECURSIVE from_le_bytes(_)
from_le_bytes(bs) ==
    IF bs = <<>> THEN 0 ELSE bs[1] + 256 * from_le_bytes(Tail(bs))

\* data[off .. off + n]
Slice(d, off, n) == SubSeq(d, off + 1, off + n)

\* copy_from_slice into data[off ..]
WriteAt(d, off, bs) ==
    SubSeq(d, 1, off) \o bs \o SubSeq(d, off + Len(bs) + 1, Len(d))

\* A resize that leaves the new bytes as they come.
ResizeUninit(d, new_len) ==
    d \o SubSeq(GarbageRun, 1, new_len - Len(d))

\* Vec::resize(new_len, 0) when new_len >= len
ResizeZero(d, new_len) ==
    d \o SubSeq(ZeroRun, 1, new_len - Len(d))

RECURSIVE Pow2(_)
Pow2(n) == IF n = 0 THEN 1 ELSE 2 * Pow2(n - 1)

align_down(addr, align) == addr - (addr % align)

align_up(addr, align) == align_down(addr + align - 1, align)

\* ------------------------------------------------------------- logic units

BITS_PER_UNIT == 8 \div PER_BYTE

get_unit(b, offset) ==
    LET offset_byte == offset \div PER_BYTE
        offset_bits == (offset % PER_BYTE) * BITS_PER_UNIT
    IN (b[offset_byte + 1] \div Pow2(offset_bits)) % Pow2(BITS_PER_UNIT)

set_unit(b, offset, u) ==
    LET offset_byte == offset \div PER_BYTE
        offset_bits == (offset % PER_BYTE) * BITS_PER_UNIT
        c == b[offset_byte + 1]
        old == (c \div Pow2(offset_bits)) % Pow2(BITS_PER_UNIT)
    IN [b EXCEPT ![offset_byte + 1] =
            (c - old * Pow2(offset_bits)) + u * Pow2(offset_bits)]

\* <Two as Logic>: 8 units to the byte, one bit each
Two_PER_BYTE == 8

Two_get_unit(b, offset) ==
    LET offset_bytes == offset \div Two_PER_BYTE
        offset_bits == offset % Two_PER_BYTE
    IN (b[offset_bytes + 1] \div Pow2(offset_bits)) % 2

Two_set_unit(b, offset, u) ==
    LET offset_bytes == offset \div Two_PER_BYTE
        offset_bits == offset % Two_PER_BYTE
        c == b[offset_bytes + 1]
        old == (c \div Pow2(offset_bits)) % 2
    IN [b EXCEPT ![offset_bytes + 1] =
            ((c - old * Pow2(offset_bits)) + u * Pow2(offset_bits)) % 256]

\* <Nine as Logic>: 2 units to the byte, four bits each
Nine_PER_BYTE == 2

Nine_get_unit(b, offset) ==
    LET offset_bytes == offset \div Nine_PER_BYTE
        offset_bits == (offset % Nine_PER_BYTE) * 4
    IN (b[offset_bytes + 1] \div Pow2(offset_bits)) % 16

\* A Nine setter that shifts by two bits to the unit, as Four does.
Nine_set_unit_two_bits(b, offset, u) ==
    LET offset_bytes == offset \div Nine_PER_BYTE
        offset_bits == (offset % Nine_PER_BYTE) * 2
        c == b[offset_bytes + 1]
        old == (c \div Pow2(offset_bits)) % 16
    IN [b EXCEPT ![offset_bytes + 1] =
            ((c - old * Pow2(offset_bits)) + u * Pow2(offset_bits)) % 256]

Nine_set_unit(b, offset, u) ==
    LET offset_bytes == offset \div Nine_PER_BYTE
        offset_bits == (offset % Nine_PER_BYTE) * 4
        c == b[offset_bytes + 1]
        old == (c \div Pow2(offset_bits)) % 16
    IN [b EXCEPT ![offset_bytes + 1] =
            ((c - old * Pow2(offset_bits)) + u * Pow2(offset_bits)) % 256]

\* The logic variants: their PER_BYTE, the u8 values of their units, and their
\* get_unit and set_unit.
Variants == {"Two", "Four", "Nine"}

PerByteOf(variant) ==
    CASE variant = "Two" -> Two_PER_BYTE
      [] variant = "Four" -> PER_BYTE
      [] variant = "Nine" -> Nine_PER_BYTE

UnitsOf(variant) ==
    CASE variant = "Two" -> 0..1
      [] variant = "Four" -> 0..3
      [] variant = "Nine" -> 0..8

GetUnit(variant, b, offset) ==
    CASE variant = "Two" -> Two_get_unit(b, offset)
      [] variant = "Four" -> get_unit(b, offset)
      [] variant = "Nine" -> Nine_get_unit(b, offset)

SetUnit(variant, b, offset, u) ==
    CASE variant = "Two" -> Two_set_unit(b, offset, u)
      [] variant = "Four" -> set_unit(b, offset, u)
      [] variant = "Nine" -> Nine_set_unit(b, offset, u)

\* LogicArray::new(width, ..) of a variant, then set(i, units[i + 1]) for
\* i in 0 .. n-1.
RECURSIVE ArrayOf(_, _, _, _)
ArrayOf(variant, width, units, n) ==
    IF n = 0
    THEN [i \in 1..((width + PerByteOf(variant) - 1) \div PerByteOf(variant)) |-> 0]
    ELSE SetUnit(variant, ArrayOf(variant, width, units, n - 1), n - 1, units[n])

\* bytes of a LogicSlice of `width` units
PackedLen(width) == (width + PER_BYTE - 1) \div PER_BYTE

\* The caller's loop `for i in 0..n { slice.set(i, units[i]) }` on the bytes b.
RECURSIVE set_units(_, _, _)
set_units(b, units, n) ==
    IF n = 0 THEN b
    ELSE set_unit(set_units(b, units, n - 1), n - 1, units[n])

\* --------------------------------------------------------------- the state

VARIABLES
    data,                    \* ChangeBlockList.data : Vec<u8>
    storage_infos,           \* ChangeBlockList.storage_infos : Vec<Option<StorageInfo>>
    timesteps,               \* ChangeBlockList.timesteps : Vec<Timesteps>
    current_timestep_index,  \* ChangeBlockList.current_timestep_index : u32
    vals,                    \* per storage, its ImplicitForest.vals : Vec<ChangeOffset>
    panicked,                \* a call panicked: the program is gone
    appended,                \* history: per storage, the records appended since it was declared
    leaves,                  \* history: per storage, the packed bytes of each leaf when pushed
    blocks,                  \* history: per storage, where each of its block headers was written
    ncalls,                  \* history: add_storage, push_timesteps and push_get calls made
    probe,                   \* the last call of a function that has no state, with its result
    ALLOCATED_SIZE,          \* mmap_alloc: static ALLOCATED_SIZE : AtomicUsize
    mem_info,                \* mmap_alloc: INITIAL_MEM_INFO, the avail of the MemInfo it holds
    mappings,                \* MmappableAllocator.mappings : HashMap<NonNull<u8>, (File, MmapMut)>
    heap,                    \* the live allocations of Global
    held,                    \* history: the allocations the allocator's caller holds
    misused,                 \* Global was handed a pointer that is not one of its live allocations
    alloc_calls,             \* history: allocate, grow and deallocate calls made
    wedged,                  \* a thread locked `mappings` while holding it: the lock is never free again
    threads,                 \* SpecThreads: each thread's position in its allocator call
    lazy,                    \* a LazyModify<T> and the threads that call it
    ingestor,                \* ligeia-core: an Ingestor, and the Processed it finishes into
    scopes,                  \* waves::scope: a Scopes, and the result of the last add_scope
    mvec                     \* mmap_vec: a VarMmapVec, and the offsets its pushes returned

store_vars == <<data, storage_infos, timesteps, current_timestep_index, vals,
                panicked, appended, leaves, blocks, ncalls>>

alloc_vars == <<ALLOCATED_SIZE, mem_info, mappings, heap, held, misused,
                alloc_calls, wedged, threads>>

aux_vars == <<lazy, ingestor, scopes, mvec>>

vars == <<store_vars, probe, alloc_vars, aux_vars>>

\* The threads that share the allocator, and a thread outside any call.
Threads == 1..MaxThreads

Idle == [pc |-> "idle", ptr |-> 0, size |-> 0, backing |-> "none", new_size |-> 0]

PAGE == 4096

\* VarMmapVec::create: one page of a new file, mapped; nothing written.
\* mapping is the contents of the mapped file; pushed is the history of the
\* items pushed, each with the offset its push returned.
VarMmapVec_create ==
    [cap |-> PAGE, offset |-> 0, mapping |-> [i \in 1..PAGE |-> 0],
     panicked |-> FALSE, pushed |-> <<>>]

ROOT_SCOPE == 0

ScopeIds == 0..MaxScopeId

\* Scopes::new: the root scope alone.  map[id] is None for an id that is not
\* in the BTreeMap, else the scope's children; result and calls are history.
Scopes_new ==
    [map |-> [id \in ScopeIds |->
                 IF id = ROOT_SCOPE THEN [children |-> <<>>] ELSE None],
     result |-> "none", calls |-> 0]

\* Ingestor::new: no storage, timestep 0, an empty temporary file.  `file` is
\* what has been written through the BufWriter; ingested is the history of
\* the values each storage was given, with the timestep current then.
Ingestor_new ==
    [current_timestep |-> 0, file |-> <<>>, writer_offset |-> 0,
     blocks |-> [s \in StorageIds |-> None],
     panicked |-> FALSE, finished |-> FALSE,
     ingested |-> [s \in StorageIds |-> <<>>], nvalues |-> 0]

\* LazyModify::new(init): not modified, the lock free, the value initialised.
\* runs counts the calls of a modify closure, raced says a thread found the
\* value modified once it had the lock, pc and got are each thread's position
\* and the outcome of its last call.
LazyModify_new ==
    [modified |-> FALSE, holder |-> 0, poisoned |-> FALSE, value |-> "init",
     runs |-> 0, raced |-> FALSE, calls |-> 0,
     pc |-> [t \in Threads |-> "idle"],
     got |-> [t \in Threads |-> "none"]]

\* INITIAL_MEM_INFO before its first use, and when sys_info::mem_info() failed
Unread == 0 - 2

NoMemInfo == 0 - 1

NoProbe == [fn |-> "none"]

\* An append made before any push_timesteps has no current timestep.
NoTimestep == 0 - 1

Init ==
    /\ data = <<>>
    /\ storage_infos = <<>>
    /\ timesteps = <<>>
    /\ current_timestep_index = 0
    /\ vals = [s \in StorageIds |-> <<>>]
    /\ panicked = FALSE
    /\ appended = [s \in StorageIds |-> <<>>]
    /\ leaves = [s \in StorageIds |-> <<>>]
    /\ blocks = [s \in StorageIds |-> <<>>]
    /\ ncalls = [declares |-> 0, timesteps |-> 0, appends |-> 0]
    /\ probe = NoProbe
    /\ ALLOCATED_SIZE = 0
    /\ mem_info = Unread
    /\ mappings = {}
    /\ heap = {}
    /\ held = <<>>
    /\ misused = FALSE
    /\ alloc_calls = 0
    /\ wedged = FALSE
    /\ threads = [t \in Threads |-> Idle]
    /\ lazy = LazyModify_new
    /\ ingestor = Ingestor_new
    /\ scopes = Scopes_new
    /\ mvec = VarMmapVec_create

\* ------------------------------------------------------- ChangeBlockList

BlockHeader(delta_next, len) ==
    to_le_bytes(delta_next, 8) \o to_le_bytes(len, 8)

\* bytemuck::from_bytes::<BlockHeader>; delta_next = 0 is Option::None
ReadHeader(d, off) ==
    [delta_next |-> from_le_bytes(Slice(d, off, 8)),
     len |-> from_le_bytes(Slice(d, off + 8, 8))]

\* A block taken for full one record early.
is_full_early(header) == header.len = CHANGES_PER_BLOCK - 1

is_full(header) == header.len = CHANGES_PER_BLOCK

Declared(id) == id < Len(storage_infos) /\ storage_infos[id + 1] # None

Info(id) == storage_infos[id + 1]

bytes_per_change_of(width) == TS_INDEX_SIZE + PackedLen(width)

\* A store that is rebuilt, zeroed, when a block is added.
WithNewBlockCleared(d, bytes_per_change) ==
    [i \in 1..(align_up(Len(d), HEADER_ALIGN) + HEADER_SIZE
                  + bytes_per_change * CHANGES_PER_BLOCK) |-> 0]

\* data after a fresh, empty block has been put at its aligned end
WithNewBlock(d, bytes_per_change) ==
    LET aligned_len == align_up(Len(d), HEADER_ALIGN)
        padded == ResizeZero(d, aligned_len)
        with_header == padded \o BlockHeader(0, 0)
    IN ResizeZero(with_header,
                  Len(with_header) + bytes_per_change * CHANGES_PER_BLOCK)

add_storage(storage_id, width) ==
    LET resized ==
            IF Len(storage_infos) <= storage_id
            THEN storage_infos \o
                 [i \in 1..(storage_id + 1 - Len(storage_infos)) |-> None]
            ELSE storage_infos
        bytes_per_change == bytes_per_change_of(width)
        current_offset == align_up(Len(data), HEADER_ALIGN)
    IN /\ ~panicked
       /\ data' = WithNewBlock(data, bytes_per_change)
       /\ storage_infos' =
              [resized EXCEPT ![storage_id + 1] =
                  [first_offset |-> current_offset,
                   last_offset |-> current_offset,
                   bytes_per_change |-> bytes_per_change,
                   width |-> width,
                   count |-> 0]]
       \* the forest of the storage declared here starts empty (new_in)
       /\ vals' = [vals EXCEPT ![storage_id] = <<>>]
       /\ appended' = [appended EXCEPT ![storage_id] = <<>>]
       /\ leaves' = [leaves EXCEPT ![storage_id] = <<>>]
       /\ blocks' = [blocks EXCEPT ![storage_id] = <<current_offset>>]
       /\ ncalls' = [ncalls EXCEPT !.declares = @ + 1]
       /\ UNCHANGED <<timesteps, current_timestep_index, panicked>>

push_timesteps(t) ==
    /\ ~panicked
    /\ current_timestep_index' = Len(timesteps)
    /\ timesteps' = Append(timesteps, t)
    /\ ncalls' = [ncalls EXCEPT !.timesteps = @ + 1]
    /\ UNCHANGED <<data, storage_infos, vals, panicked, appended, leaves, blocks>>

\* A push_get that forgets to count.
count_not_bumped(count) == count

\* StorageInfo.count after one more push_get
count_after_push(count) == count + 1

\* The new block's absolute offset instead of the distance to it.
delta_absolute(aligned_len, last_offset) == aligned_len

\* BlockHeader.delta_next written into the full block at last_offset
delta_to_new_block(aligned_len, last_offset) == aligned_len - last_offset

\* StorageInfo.last_offset once a new block has been allocated
last_offset_after_alloc(current_offset, aligned_len) == current_offset

\* BlockHeader.len after the record has been reserved
len_after_push(len) == len + 1

\* What push_get does to the store before it returns: the new data, the new
\* StorageInfo, and the offset of the reserved record (its timestep index;
\* the returned slice starts TS_INDEX_SIZE bytes later).
push_get_store(storage_id) ==
    LET info == Info(storage_id)
        current_offset == Len(data)
        full == is_full(ReadHeader(data, info.last_offset))
        aligned_len == align_up(current_offset, HEADER_ALIGN)
        patched ==
            WriteAt(data, info.last_offset,
                    to_le_bytes(delta_to_new_block(aligned_len, info.last_offset), 8))
        d1 == IF full THEN WithNewBlock(patched, info.bytes_per_change) ELSE data
        block == IF full THEN aligned_len ELSE info.last_offset
        block_header == ReadHeader(d1, block)
        change_offset == block_header.len * info.bytes_per_change
        record == block + HEADER_SIZE + change_offset
        d2 == WriteAt(d1, record, to_le_bytes(current_timestep_index, TS_INDEX_SIZE))
        d3 == WriteAt(d2, block + 8, to_le_bytes(len_after_push(block_header.len), 8))
    IN [data |-> d3,
        info |-> [info EXCEPT
                    !.count = count_after_push(@),
                    !.last_offset =
                        IF full
                        THEN last_offset_after_alloc(current_offset, aligned_len)
                        ELSE @],
        record |-> record,
        allocated |-> IF full THEN <<aligned_len>> ELSE <<>>]

\* The timestep most recently pushed.
CurrentTimestep ==
    IF timesteps = <<>> THEN NoTimestep ELSE timesteps[Len(timesteps)]

\* A push_get that makes room for the id in storage_infos before it looks the
\* storage up.
push_get_resizing(storage_id, units) ==
    /\ ~panicked
    /\ ~Declared(storage_id)
    /\ panicked' = TRUE
    /\ storage_infos' =
           IF Len(storage_infos) <= storage_id
           THEN storage_infos \o
                [i \in 1..(storage_id + 1 - Len(storage_infos)) |-> None]
           ELSE storage_infos
    /\ UNCHANGED <<data, timesteps, current_timestep_index, vals, appended,
                   leaves, blocks, ncalls>>

\* push_get(storage_id), then the caller sets units 0 .. Len(units)-1 of the
\* returned slice.  On an id that was never declared the index or the unwrap
\* panics before anything is written.
push_get(storage_id, units) ==
    /\ ~panicked
    /\ IF ~Declared(storage_id)
       THEN /\ panicked' = TRUE
            /\ UNCHANGED <<data, storage_infos, timesteps, current_timestep_index,
                           vals, appended, leaves, blocks, ncalls>>
       ELSE LET r == push_get_store(storage_id)
                n == PackedLen(r.info.width)
                slice == r.record + TS_INDEX_SIZE
                filled == set_units(Slice(r.data, slice, n), units, Len(units))
            IN /\ Len(units) <= r.info.width
               /\ data' = WriteAt(r.data, slice, filled)
               /\ storage_infos' = [storage_infos EXCEPT ![storage_id + 1] = r.info]
               /\ appended' =
                      [appended EXCEPT ![storage_id] =
                          Append(@, [ts |-> CurrentTimestep, bytes |-> filled])]
               /\ blocks' = [blocks EXCEPT ![storage_id] = @ \o r.allocated]
               /\ ncalls' = [ncalls EXCEPT !.appends = @ + 1]
               /\ UNCHANGED <<timesteps, current_timestep_index, vals, panicked,
                              leaves>>

\* push_get when the Vec cannot grow for the new block: info.count, the full
\* block's delta_next and info.last_offset have been written by then, and the
\* failed reservation ends the call (handle_alloc_error).
push_get_alloc_failure(storage_id) ==
    LET info == Info(storage_id)
        current_offset == Len(data)
        aligned_len == align_up(current_offset, HEADER_ALIGN)
    IN /\ ~panicked
       /\ Declared(storage_id)
       /\ is_full(ReadHeader(data, info.last_offset))
       /\ data' =
              WriteAt(data, info.last_offset,
                      to_le_bytes(delta_to_new_block(aligned_len, info.last_offset), 8))
       /\ storage_infos' =
              [storage_infos EXCEPT ![storage_id + 1] =
                  [info EXCEPT
                     !.count = count_after_push(@),
                     !.last_offset =
                         last_offset_after_alloc(current_offset, aligned_len)]]
       /\ panicked' = TRUE
       /\ ncalls' = [ncalls EXCEPT !.appends = @ + 1]
       /\ UNCHANGED <<timesteps, current_timestep_index, vals, appended, leaves,
                      blocks>>

count_of(storage_id) == Info(storage_id).count

\* StorageIter::next, run to the end: the offsets iter_storage yields, and
\* whether the iteration completed.  One recursion step is one block: next()
\* yields block_offset + HEADER_SIZE + bytes_per_change * index_in_block for
\* index_in_block = 0, 1, ... and, once index_in_block = CHANGES_PER_BLOCK with
\* items remaining, moves block_offset by the header's delta_next (the unwrap
\* of a missing delta_next panics).
RECURSIVE StorageIter(_, _, _, _)
StorageIter(acc, block_offset, remaining, bytes_per_change) ==
    LET in_block == IF remaining < CHANGES_PER_BLOCK THEN remaining
                    ELSE CHANGES_PER_BLOCK
        yielded == acc \o [index_in_block \in 1..in_block |->
                            block_offset + HEADER_SIZE
                                + bytes_per_change * (index_in_block - 1)]
        delta_next == ReadHeader(data, block_offset).delta_next
    IN IF remaining = in_block THEN [offsets |-> yielded, ok |-> TRUE]
       ELSE IF delta_next = 0 THEN [offsets |-> yielded, ok |-> FALSE]
       ELSE StorageIter(yielded, block_offset + delta_next,
                        remaining - in_block, bytes_per_change)

iter_storage(storage_id) ==
    LET info == Info(storage_id)
    IN StorageIter(<<>>, info.first_offset, info.count, info.bytes_per_change)

\* The timestep index stored in the record at `offset`.
TimestepIndexAt(d, offset) == from_le_bytes(Slice(d, offset, TS_INDEX_SIZE))

\* The packed bytes of the record at `offset`.
PackedAt(d, offset, width) == Slice(d, offset + TS_INDEX_SIZE, PackedLen(width))

\* get_change on the store d: indexing timesteps out of range panics.
get_change_in(d, offset, width) ==
    LET timestep_index == TimestepIndexAt(d, offset)
    IN IF timestep_index >= Len(timesteps) THEN Panic
       ELSE [ts |-> timesteps[timestep_index + 1],
             bytes |-> PackedAt(d, offset, width)]

get_change(offset, width) == get_change_in(data, offset, width)

\* -------------------------------------------------------- the aggregator

Max2(x, y) == IF x >= y THEN x ELSE y

\* C::combine on the packed bytes, for the max aggregator: lhs is overwritten
\* with the byte-wise cmp::max(lhs, rhs).
combine(lhs, rhs) == [i \in 1..Len(lhs) |-> Max2(lhs[i], rhs[i])]

\* LogicArray::new(width, fill)
LogicArray_new(width, fill) ==
    set_units([i \in 1..PackedLen(width) |-> 0], [i \in 1..width |-> fill], width)

\* -------------------------------------------------------- ImplicitForest

RECURSIVE trailing_ones(_)
trailing_ones(x) == IF x % 2 = 1 THEN 1 + trailing_ones(x \div 2) ELSE 0

\* x & x.wrapping_neg(): the lowest set bit
RECURSIVE lsp(_)
lsp(x) == IF x = 0 THEN 0 ELSE IF x % 2 = 1 THEN 1 ELSE 2 * lsp(x \div 2)

\* 1usize.reverse_bits() >> x.leading_zeros(): the highest set bit (x > 0)
RECURSIVE msp(_)
msp(x) == IF x <= 1 THEN x ELSE 2 * msp(x \div 2)

RECURSIVE BitOr(_, _)
BitOr(x, y) ==
    IF x = 0 THEN y
    ELSE IF y = 0 THEN x
    ELSE Max2(x % 2, y % 2) + 2 * BitOr(x \div 2, y \div 2)

\* A skip taken one level too high.
prefix_one_level_up(min, max) == lsp(BitOr(min, 2 * msp(max - min)))

largest_prefix_inside_skip(min, max) == lsp(BitOr(min, msp(max - min)))

agg_node(i, offset) == i + (offset \div 2) - 1

\* get_two_changes reads both records' timesteps: either index out of range
\* panics.
TwoChangesOk(d, lhs, rhs) ==
    /\ TimestepIndexAt(d, lhs) < Len(timesteps)
    /\ TimestepIndexAt(d, rhs) < Len(timesteps)

\* The element of vals the new aggregate slot is copied from.
new_agg_source(len, levels_to_index) == len - Pow2(levels_to_index)

\* The loop of ImplicitForest::push: for level in 0..levels_to_index, combine
\* the record at vals[current] into the record at vals[prev_higher_level].
RECURSIVE PushLoop(_, _, _, _, _, _)
PushLoop(d, v, width, current, level, levels_to_index) ==
    IF level = levels_to_index THEN [data |-> d, ok |-> TRUE]
    ELSE LET prev_higher_level == current - Pow2(level)
             lhs == v[prev_higher_level + 1]
             rhs == v[current + 1]
         IN IF ~TwoChangesOk(d, lhs, rhs) THEN [data |-> d, ok |-> FALSE]
            ELSE PushLoop(
                    WriteAt(d, lhs + TS_INDEX_SIZE,
                            combine(PackedAt(d, lhs, width), PackedAt(d, rhs, width))),
                    v, width, prev_higher_level, level + 1, levels_to_index)

\* ImplicitForest::push(change_blocks, offset) on the forest v of `width`.
forest_push(d, v, width, offset) ==
    LET v1 == Append(v, offset)
        len == Len(v1)
        levels_to_index == trailing_ones(len) - 1
        r == PushLoop(d, v1, width, len - 1, 0, levels_to_index)
    IN [data |-> r.data,
        ok |-> r.ok,
        vals |-> IF r.ok
                 THEN Append(v1, v1[new_agg_source(len, levels_to_index) + 1])
                 ELSE v1]

\* Leaves pushed so far onto the forest of storage_id.
LeafCount(storage_id) == Len(vals[storage_id]) \div 2

\* The forest of a storage is pushed once per change, in append order: the
\* next offset iter_storage yields.
push(storage_id) ==
    /\ ~panicked
    /\ Declared(storage_id)
    /\ LeafCount(storage_id) < count_of(storage_id)
    /\ LET info == Info(storage_id)
           offset == iter_storage(storage_id).offsets[LeafCount(storage_id) + 1]
           r == forest_push(data, vals[storage_id], info.width, offset)
       IN /\ data' = r.data
          /\ vals' = [vals EXCEPT ![storage_id] = r.vals]
          /\ panicked' = ~r.ok
          /\ leaves' = [leaves EXCEPT ![storage_id] =
                            Append(@, PackedAt(data, offset, info.width))]
    /\ UNCHANGED <<storage_infos, timesteps, current_timestep_index, appended,
                   blocks, ncalls>>

\* The while loop of range_query; header = NoTimestep is combined_header = None,
\* reads counts the get_change calls made.
RECURSIVE QueryLoop(_, _, _, _, _, _)
QueryLoop(v, width, start, end, header, combined) ==
    IF start < end
    THEN LET skip == largest_prefix_inside_skip(start, end)
             rhs == get_change(v[agg_node(start, skip) + 1], width)
             rest == QueryLoop(v, width, start + skip, end,
                               IF header = NoTimestep THEN rhs.ts ELSE header,
                               combine(combined, rhs.bytes))
         IN IF rhs = Panic
            THEN [ok |-> FALSE, header |-> header, combined |-> combined,
                  reads |-> 1]
            ELSE [rest EXCEPT !.reads = @ + 1]
    ELSE \* combined_header.unwrap()
         [ok |-> header # NoTimestep, header |-> header, combined |-> combined,
          reads |-> 0]

\* ImplicitForest::range_query(change_blocks, a..b, combined) on the forest v.
range_query(v, width, a, b, combined) ==
    IF ~(a * 2 <= Len(v) /\ b * 2 <= Len(v))
    THEN [ok |-> FALSE, header |-> NoTimestep, combined |-> combined,
          reads |-> 0]
    ELSE QueryLoop(v, width, a * 2, b * 2, NoTimestep, combined)

\* A usize too large to write out is hi * 2^63 + lo with hi in {0, 1}.
Usizes(max_lo) == [hi : {0, 1}, lo : 0..max_lo]

\* range_query on r.start, r.end of the full usize range.  r.start * 2 and
\* r.end * 2 overflow when hi = 1: a build with overflow checks panics on the
\* multiplication, a build without them wraps modulo 2^64, which leaves 2 * lo.
range_query_usize(v, width, r_start, r_end, combined, overflow_checks) ==
    IF overflow_checks /\ (r_start.hi = 1 \/ r_end.hi = 1)
    THEN [ok |-> FALSE, header |-> NoTimestep, combined |-> combined,
          reads |-> 0]
    ELSE range_query(v, width, r_start.lo, r_end.lo, combined)

\* range_query on the forest of storage_id with a fresh accumulator filled with
\* Four::default() (Zero).
QueryOf(storage_id, a, b) ==
    range_query(vals[storage_id], Info(storage_id).width, a, b,
                LogicArray_new(Info(storage_id).width, 0))

\* ---------------------------------------------------- MmappableAllocator

MMAP_THRESHOLD == 20000000

Addrs == 1..MaxAddr

\* Layout sizes and alignments asked for, and what sys_info can report.
AllocSizes == {4096, MMAP_THRESHOLD - 1, MMAP_THRESHOLD, 2 * MMAP_THRESHOLD}

Aligns == {1, 8}

MemInfos == {NoMemInfo, 0, 3 * MMAP_THRESHOLD}

\* An entry of mappings: the key, the length of the File and the MmapMut.
Entry(key, file_len, base, len) ==
    [key |-> key, file_len |-> file_len, base |-> base, len |-> len]

Keys == {e.key : e \in mappings}

EntryOf(ptr) == CHOOSE e \in mappings : e.key = ptr

\* HashMap::insert and HashMap::remove
Insert(m, e) == {x \in m : x.key # e.key} \cup {e}

Remove(m, ptr) == {x \in m : x.key # ptr}

\* Addresses a new mapping or a new Global allocation cannot be given.
InUse == {e.base : e \in mappings} \cup {a.ptr : a \in heap}

pad_to_align(size, align) == align_up(size, align)

should_mmap(size) ==
    /\ mem_info # NoMemInfo
    /\ size >= MMAP_THRESHOLD
    /\ mem_info <= ALLOCATED_SIZE * 2

\* lazy_static: INITIAL_MEM_INFO is read once, on first use.
LoadMemInfo ==
    /\ mem_info = Unread
    /\ mem_info' \in MemInfos
    /\ UNCHANGED <<ALLOCATED_SIZE, mappings, heap, held, misused, alloc_calls,
                   wedged, threads>>

\* allocate_mmap(layout) when tempfile, set_len and map_mut succeed and the
\* mapping is placed at ptr.
allocate_mmap(size, ptr) ==
    /\ ptr \notin InUse
    /\ mappings' = Insert(mappings, Entry(ptr, size, ptr, size))
    /\ ALLOCATED_SIZE' = ALLOCATED_SIZE + size

\* Global.deallocate(ptr, ..)
GlobalFree(h, ptr) == {a \in h : a.ptr # ptr}

OwnedByGlobal(ptr) == ptr \in {a.ptr : a \in heap}

Called == alloc_calls' = alloc_calls + 1

\* allocate(layout); ok says whether the OS or Global can serve it, ptr where.
allocate(size, align, ptr, ok) ==
    LET padded == pad_to_align(size, align)
        got(backing) == [ptr |-> ptr, size |-> size, align |-> align,
                         backing |-> backing]
    IN /\ ~misused
       /\ ~wedged
       /\ mem_info # Unread
       /\ IF should_mmap(padded)
          THEN IF ok
               THEN /\ allocate_mmap(padded, ptr)
                    /\ held' = Append(held, got("mmap"))
                    /\ UNCHANGED heap
               ELSE UNCHANGED <<ALLOCATED_SIZE, mappings, heap, held>>
          ELSE /\ ALLOCATED_SIZE' = ALLOCATED_SIZE + padded
               /\ IF ok
                  THEN /\ ptr \notin InUse
                       /\ heap' = heap \cup {[ptr |-> ptr, size |-> padded]}
                       /\ held' = Append(held, got("heap"))
                  ELSE UNCHANGED <<heap, held>>
               /\ UNCHANGED mappings
       /\ Called
       /\ UNCHANGED <<mem_info, misused, wedged, threads>>

Without(s, i) == SubSeq(s, 1, i - 1) \o SubSeq(s, i + 1, Len(s))

\* deallocate(ptr, layout) of the i-th allocation the caller holds.
deallocate(i) ==
    LET ptr == held[i].ptr
        size == held[i].size
    IN /\ ~misused
       /\ ~wedged
       /\ ALLOCATED_SIZE' =
              IF size > ALLOCATED_SIZE THEN 0 ELSE ALLOCATED_SIZE - size
       /\ IF ptr \in Keys
          THEN /\ mappings' = Remove(mappings, ptr)
               /\ UNCHANGED <<heap, misused>>
          ELSE /\ heap' = GlobalFree(heap, ptr)
               /\ misused' = ~OwnedByGlobal(ptr)
               /\ UNCHANGED mappings
       /\ held' = Without(held, i)
       /\ Called
       /\ UNCHANGED <<mem_info, wedged, threads>>

GrowOutcomes == {"ok", "set_len fails", "map_mut fails", "out of memory"}

\* grow(ptr, old_layout, new_layout) of the i-th allocation the caller holds.
\* The guard of `mappings` taken in the `if let` scrutinee lives to the end of
\* the whole if-let-else, so the else branch runs with the lock held: when it
\* calls allocate_mmap and the file and the mapping are made, the second
\* lock() of the same thread never returns (it deadlocks, or panics and
\* poisons the mutex).
\* On the mapped path the new MmapMut is created while the old one is still
\* mapped, so its base new_ptr is an address not in use; the assignment then
\* drops (unmaps) the old one, and the pointer returned is the old ptr.
grow(i, new_size, new_ptr, outcome) ==
    LET ptr == held[i].ptr
        align == held[i].align
        moved(to, backing) ==
            [held EXCEPT ![i] = [ptr |-> to, size |-> new_size,
                                 align |-> align, backing |-> backing]]
    IN /\ ~misused
       /\ ~wedged
       /\ new_size >= held[i].size
       /\ IF ptr \in Keys
          THEN LET e == EntryOf(ptr)
               IN /\ outcome # "out of memory"
                  /\ CASE outcome = "set_len fails" ->
                            UNCHANGED <<mappings, held>>
                       [] outcome = "map_mut fails" ->
                            /\ mappings' = Insert(mappings,
                                   Entry(ptr, new_size, e.base, e.len))
                            /\ UNCHANGED held
                       [] outcome = "ok" ->
                            /\ new_ptr \notin InUse
                            /\ mappings' = Insert(mappings,
                                   Entry(ptr, new_size, new_ptr, new_size))
                            /\ held' = moved(ptr, held[i].backing)
                  /\ UNCHANGED <<ALLOCATED_SIZE, heap, misused, wedged>>
          ELSE /\ mem_info # Unread
               /\ outcome \in {"ok", "out of memory"}
               /\ IF should_mmap(new_size)
                  THEN /\ wedged' = (outcome = "ok")
                       /\ UNCHANGED <<ALLOCATED_SIZE, mappings, heap, held,
                                      misused>>
                  ELSE /\ misused' = ~OwnedByGlobal(ptr)
                       /\ UNCHANGED wedged
                       /\ IF outcome = "ok" /\ OwnedByGlobal(ptr)
                          THEN /\ new_ptr \notin (InUse \ {ptr})
                               /\ heap' = GlobalFree(heap, ptr) \cup
                                      {[ptr |-> new_ptr, size |-> new_size]}
                               /\ held' = moved(new_ptr, "heap")
                          ELSE UNCHANGED <<heap, held>>
                       /\ UNCHANGED <<ALLOCATED_SIZE, mappings>>
       /\ Called
       /\ UNCHANGED <<mem_info, threads>>

\* ------------------------------------------------------ specifications

\* The unit sequences a caller writes into a slice of `width` units.
FillInputs(width) == UNION {[1..n -> FillUnits] : n \in 1..width}

DeclareStep ==
    \E s \in StorageIds, w \in Widths :
        /\ ncalls.declares < MaxDeclares
        /\ add_storage(s, w)
        /\ UNCHANGED <<probe, alloc_vars, aux_vars>>

TimestepStep ==
    \E t \in Times :
        /\ ncalls.timesteps < MaxTimesteps
        /\ push_timesteps(t)
        /\ UNCHANGED <<probe, alloc_vars, aux_vars>>

AppendStep ==
    /\ \E s \in StorageIds :
          IF Declared(s)
          THEN /\ ncalls.appends < MaxAppends
               /\ \E units \in FillInputs(Info(s).width) : push_get(s, units)
          ELSE push_get(s, <<>>)
    /\ UNCHANGED <<probe, alloc_vars, aux_vars>>

ForestStep == (\E s \in StorageIds : push(s)) /\ UNCHANGED <<probe, alloc_vars, aux_vars>>

Next == DeclareStep \/ TimestepStep \/ AppendStep \/ ForestStep

Spec == Init /\ [][Next]_vars

\* SpecChain: a long run of changes on storage 0, its forest pushed after every
\* change, so that its chain grows past one block.  The other storage is
\* declared, appended to and indexed only while storage 0 stands at a block
\* boundary, which puts its blocks between those of storage 0.
ChainIds == {0, 1}

AtBoundary ==
    IF Declared(0) THEN count_of(0) % CHANGES_PER_BLOCK = 0 ELSE TRUE

ChainDeclareStep ==
    \E s \in ChainIds :
        /\ ~Declared(s)
        /\ AtBoundary
        /\ add_storage(s, MaxWidth)
        /\ UNCHANGED <<probe, alloc_vars, aux_vars>>

ChainTimestepStep ==
    /\ timesteps = <<>>
    /\ AtBoundary
    /\ push_timesteps(MaxTime)
    /\ UNCHANGED <<probe, alloc_vars, aux_vars>>

ChainAppendStep ==
    \/ /\ Declared(0)
       /\ count_of(0) < MaxChainAppends
       /\ LeafCount(0) = count_of(0)
       /\ push_get(0, <<count_of(0) % 2>>)
       /\ UNCHANGED <<probe, alloc_vars, aux_vars>>
    \/ \E s \in ChainIds \ {0} :
        /\ Declared(s)
        /\ AtBoundary
        /\ count_of(s) < MaxChainOther
        /\ push_get(s, <<1>>)
        /\ UNCHANGED <<probe, alloc_vars, aux_vars>>

ChainForestStep ==
    \E s \in ChainIds :
        /\ IF s = 0 THEN TRUE ELSE AtBoundary
        /\ push(s)
        /\ UNCHANGED <<probe, alloc_vars, aux_vars>>

ChainAllocFailStep ==
    \E s \in ChainIds : push_get_alloc_failure(s) /\ UNCHANGED <<probe, alloc_vars, aux_vars>>

NextChain ==
    \/ ChainDeclareStep
    \/ ChainTimestepStep
    \/ ChainAppendStep
    \/ ChainForestStep
    \/ ChainAllocFailStep

SpecChain == Init /\ [][NextChain]_vars

\* SpecFill: storages of one unit, of one full byte and of more than a byte,
\* whose callers set only the first n units of the slice push_get returns.
FillWidths == {1, PER_BYTE, MaxFillWidth}

\* n units, each Four::HighImpedance (both bits set)
Written(n) == [i \in 1..n |-> 3]

FillDeclareStep ==
    \E s \in ChainIds, w \in FillWidths :
        /\ ~Declared(s)
        /\ add_storage(s, w)
        /\ UNCHANGED <<probe, alloc_vars, aux_vars>>

FillAppendStep ==
    \E s \in ChainIds : \E n \in 0..MaxFillWidth :
        /\ Declared(s)
        /\ ncalls.appends < MaxFillAppends
        /\ push_get(s, Written(n))
        /\ UNCHANGED <<probe, alloc_vars, aux_vars>>

NextFill == FillDeclareStep \/ FillAppendStep

SpecFill == Init /\ [][NextFill]_vars

\* SpecQuery: the index arithmetic of range_query on its own, for every range
\* of every forest of up to MaxLeaves leaves.

\* The while loop of range_query without the store: the skips taken from
\* start, the indices of vals read, and where start stands when the loop ends.
RECURSIVE QuerySkips(_, _, _, _)
QuerySkips(start, end, skips, nodes) ==
    IF start < end
    THEN LET skip == largest_prefix_inside_skip(start, end)
         IN IF skip = 0
            THEN [skips |-> skips, nodes |-> nodes, start |-> start, ended |-> FALSE]
            ELSE QuerySkips(start + skip, end, Append(skips, skip),
                            Append(nodes, agg_node(start, skip)))
    ELSE [skips |-> skips, nodes |-> nodes, start |-> start, ended |-> TRUE]

RangeProbe ==
    /\ probe = NoProbe
    /\ \E n \in 1..MaxLeaves : \E a \in 0..(n - 1) : \E b \in (a + 1)..n :
        /\ probe' = [fn |-> "range_query", n |-> n, a |-> a, b |-> b,
                     loop |-> QuerySkips(a * 2, b * 2, <<>>, <<>>)]
        /\ UNCHANGED <<store_vars, alloc_vars, aux_vars>>

\* The caller drops the result.
ProbeReturn ==
    /\ probe # NoProbe
    /\ probe' = NoProbe
    /\ UNCHANGED <<store_vars, alloc_vars, aux_vars>>

NextQuery == RangeProbe \/ ProbeReturn

SpecQuery == Init /\ [][NextQuery]_vars

\* SpecUnits: LogicArray::set on arrays of every variant and width, the array
\* holding the units x, y, x, y, .. before the call.
UnitsProbe ==
    /\ probe = NoProbe
    /\ \E variant \in Variants, width \in 1..MaxUnitsWidth :
      \E x \in UnitsOf(variant), y \in UnitsOf(variant), u \in UnitsOf(variant) :
        \E offset \in 0..(width - 1) :
            LET before == ArrayOf(variant, width,
                                  [i \in 1..width |-> IF i % 2 = 1 THEN x ELSE y],
                                  width)
            IN /\ probe' = [fn |-> "set", variant |-> variant, width |-> width,
                            before |-> before, offset |-> offset, unit |-> u,
                            after |-> SetUnit(variant, before, offset, u)]
               /\ UNCHANGED <<store_vars, alloc_vars, aux_vars>>

NextUnits == UnitsProbe \/ ProbeReturn

SpecUnits == Init /\ [][NextUnits]_vars

\* SpecLookup: storages declared once each, timesteps, and push_get on any
\* id, declared or not.
LookupDeclareStep ==
    \E s \in StorageIds :
        /\ ~Declared(s)
        /\ add_storage(s, MaxWidth)
        /\ UNCHANGED <<probe, alloc_vars, aux_vars>>

LookupTimestepStep ==
    /\ ncalls.timesteps < MaxLookupTimesteps
    /\ push_timesteps(MaxTime)
    /\ UNCHANGED <<probe, alloc_vars, aux_vars>>

LookupAppendStep ==
    /\ \E s \in StorageIds :
          IF Declared(s)
          THEN /\ ncalls.appends < MaxLookupAppends
               /\ push_get(s, <<1>>)
          ELSE push_get(s, <<>>)
    /\ UNCHANGED <<probe, alloc_vars, aux_vars>>

NextLookup == LookupDeclareStep \/ LookupTimestepStep \/ LookupAppendStep

SpecLookup == Init /\ [][NextLookup]_vars

\* SpecAlloc: one thread calling allocate, grow and deallocate on one
\* MmappableAllocator, holding at most MaxLive allocations at a time.
MemInfoStep ==
    /\ LoadMemInfo
    /\ UNCHANGED <<store_vars, probe, aux_vars>>

AllocateStep ==
    /\ alloc_calls < MaxAllocCalls
    /\ Len(held) < MaxLive
    /\ \E size \in AllocSizes, align \in Aligns, ptr \in Addrs, ok \in BOOLEAN :
          allocate(size, align, ptr, ok)
    /\ UNCHANGED <<store_vars, probe, aux_vars>>

GrowStep ==
    /\ alloc_calls < MaxAllocCalls
    /\ \E i \in 1..Len(held), new_size \in AllocSizes, new_ptr \in Addrs,
          outcome \in GrowOutcomes :
          grow(i, new_size, new_ptr, outcome)
    /\ UNCHANGED <<store_vars, probe, aux_vars>>

DeallocateStep ==
    /\ alloc_calls < MaxAllocCalls
    /\ \E i \in 1..Len(held) : deallocate(i)
    /\ UNCHANGED <<store_vars, probe, aux_vars>>

NextAlloc == MemInfoStep \/ AllocateStep \/ GrowStep \/ DeallocateStep

SpecAlloc == Init /\ [][NextAlloc]_vars

\* ------------------------------------------------------------ core2: Max

Bit_PER_CHUNK == 8

Qit_PER_CHUNK == 4

Chunks == 0..255

UnitKinds == {"Bit", "Qit"}

PER_CHUNK(kind) == IF kind = "Bit" THEN Bit_PER_CHUNK ELSE Qit_PER_CHUNK

\* Unit::from_chunk: unit i of the chunk (i from 0, least significant first)
from_chunk(kind, c, i) ==
    LET bits == 8 \div PER_CHUNK(kind)
    IN (c \div Pow2(i * bits)) % Pow2(bits)

\* cmp::max on the whole chunks
Max_mix_partial(lhs, rhs, count) == IF rhs >= lhs THEN rhs ELSE lhs

\* Mix::mix, the provided method
Max_mix(kind, lhs, rhs) == Max_mix_partial(lhs, rhs, PER_CHUNK(kind))

\* SpecMix: Max::mix on every pair of chunks, for both unit kinds.
MixProbe ==
    /\ probe = NoProbe
    /\ \E kind \in UnitKinds, lhs \in Chunks, rhs \in Chunks :
          probe' = [fn |-> "mix", kind |-> kind, lhs |-> lhs, rhs |-> rhs,
                    out |-> Max_mix(kind, lhs, rhs)]
    /\ UNCHANGED <<store_vars, alloc_vars, aux_vars>>

NextMix == MixProbe \/ ProbeReturn

SpecMix == Init /\ [][NextMix]_vars

\* ------------------------------------------------------------- Ingestor

TIMESTEPS_SIZE == 8

MIN_BLOCK_SIZE == 10240

ZeroBytes(n) == [i \in 1..n |-> 0]

\* The bytes of one value of a storage (ingest_storage).
bytes_of(ty, width) ==
    CASE ty = "TwoLogic" -> (width + 7) \div 8
      [] ty = "FourLogic" -> (width + 3) \div 4
      [] ty = "NineLogic" -> width

Block_new(bytes) ==
    LET block_size == IF MIN_BLOCK_SIZE >= bytes + TIMESTEPS_SIZE
                      THEN MIN_BLOCK_SIZE ELSE bytes + TIMESTEPS_SIZE
    IN [bytes |-> bytes, block_size |-> block_size,
        data |-> ZeroBytes(block_size), offset |-> 0, block_offsets |-> <<>>]

\* Block::flush: the block, the file and the writer offset afterwards.
Block_flush(block, file, writer_offset) ==
    [block |-> [block EXCEPT
                  !.block_offsets = Append(@, <<writer_offset, block.offset>>),
                  !.offset = 0],
     file |-> file \o SubSeq(block.data, 1, block.offset),
     writer_offset |-> writer_offset + block.offset]

\* The condition under which Block::push flushes first.
push_flushes(offset, len) == TIMESTEPS_SIZE + len > offset + len

\* Block::push; the slice expressions panic when they leave the buffer, the
\* first of them before anything is written, the second after the timestamp.
Block_push(block, file, writer_offset, timestamp, d) ==
    LET fl == IF push_flushes(block.offset, Len(d))
              THEN Block_flush(block, file, writer_offset)
              ELSE [block |-> block, file |-> file,
                    writer_offset |-> writer_offset]
        b == fl.block
        room == b.block_size - b.offset
        stamped == [b EXCEPT
                      !.data = WriteAt(@, b.offset,
                                       to_le_bytes(timestamp, TIMESTEPS_SIZE)),
                      !.offset = @ + TIMESTEPS_SIZE]
        pushed == [stamped EXCEPT
                     !.data = WriteAt(@, stamped.offset,
                                      d \o ZeroBytes(b.bytes - Len(d))),
                     !.offset = @ + b.bytes]
    IN IF room < TIMESTEPS_SIZE
       THEN [fl EXCEPT !.block = b] @@ [panic |-> TRUE]
       ELSE IF room - TIMESTEPS_SIZE < b.bytes \/ Len(d) > b.bytes
       THEN [fl EXCEPT !.block = stamped] @@ [panic |-> TRUE]
       ELSE [fl EXCEPT !.block = pushed] @@ [panic |-> FALSE]

\* The frame of a step of SpecIngest.
OnlyIngestor == UNCHANGED <<store_vars, probe, alloc_vars, lazy, scopes, mvec>>

IngestShapes ==
    {[ty |-> "FourLogic", width |-> 5],
     [ty |-> "NineLogic", width |-> MaxNineWidth]}

IngestData == {<<5>>, <<6>>}

Ingesting == ~ingestor.panicked /\ ~ingestor.finished

ingest_storage(id, shape) ==
    /\ Ingesting
    /\ ingestor.blocks[id] = None
    /\ ingestor' = [ingestor EXCEPT
           !.blocks[id] = Block_new(bytes_of(shape.ty, shape.width))]

ingest_timestep(new) ==
    /\ Ingesting
    /\ ingestor' = [ingestor EXCEPT !.current_timestep = new]

\* ingest_value on a declared storage
ingest_value(id, d) ==
    LET r == Block_push(ingestor.blocks[id], ingestor.file,
                        ingestor.writer_offset, ingestor.current_timestep, d)
    IN /\ Ingesting
       /\ ingestor.blocks[id] # None
       /\ ingestor' = [ingestor EXCEPT
              !.blocks[id] = r.block,
              !.file = r.file,
              !.writer_offset = r.writer_offset,
              !.panicked = r.panic,
              !.nvalues = @ + 1,
              !.ingested[id] =
                  IF r.panic THEN @
                  ELSE Append(@, [ts |-> ingestor.current_timestep, data |-> d])]

\* Block::commit of the blocks in the order `order`, from the state ing.
RECURSIVE CommitAll(_, _)
CommitAll(ing, order) ==
    IF order = <<>> THEN ing
    ELSE LET id == Head(order)
             fl == Block_flush(ing.blocks[id], ing.file, ing.writer_offset)
         IN CommitAll([ing EXCEPT !.blocks[id] = fl.block,
                                  !.file = fl.file,
                                  !.writer_offset = fl.writer_offset],
                      Tail(order))

IngestedIds == {s \in StorageIds : ingestor.blocks[s] # None}

\* The orders in which the HashMap of blocks can be iterated.
Orders(ids) ==
    {o \in [1..Cardinality(ids) -> ids] :
        \A i, j \in 1..Cardinality(ids) : i # j => o[i] # o[j]}

\* finish: every block is committed, in the map's iteration order.
finish ==
    /\ Ingesting
    /\ \E order \in Orders(IngestedIds) :
          ingestor' = [CommitAll(ingestor, order) EXCEPT !.finished = TRUE]

\* The records of one committed block, read from `buffer` at sub_offset =
\* 0, bytes + 8, ..: the timestamp and the rest of the buffer.
RECURSIVE SubBlocks(_, _, _, _)
SubBlocks(buffer, sub_offset, block_size, bytes) ==
    IF sub_offset >= block_size THEN <<>>
    ELSE <<[ts |-> from_le_bytes(Slice(buffer, sub_offset, TIMESTEPS_SIZE)),
            data |-> SubSeq(buffer, sub_offset + TIMESTEPS_SIZE + 1, Len(buffer))]>>
         \o SubBlocks(buffer, sub_offset + bytes + TIMESTEPS_SIZE, block_size, bytes)

\* CommittedBlocks::read_blocks: the calls of f, in order.
RECURSIVE read_blocks(_, _, _)
read_blocks(block, buffer, k) ==
    IF k > Len(block.block_offsets) THEN <<>>
    ELSE LET offset == block.block_offsets[k][1]
             block_size == block.block_offsets[k][2]
             filled == Slice(ingestor.file, offset, block_size)
                         \o SubSeq(buffer, block_size + 1, Len(buffer))
         IN SubBlocks(filled, 0, block_size, block.bytes)
              \o read_blocks(block, filled, k + 1)

load_storage(id) ==
    read_blocks(ingestor.blocks[id], ZeroBytes(ingestor.blocks[id].block_size), 1)

IngestStorageStep ==
    /\ \E id \in StorageIds, shape \in IngestShapes : ingest_storage(id, shape)
    /\ OnlyIngestor

IngestTimestepStep ==
    /\ \E new \in Times : ingest_timestep(new)
    /\ OnlyIngestor

IngestValueStep ==
    /\ \E id \in StorageIds, d \in IngestData :
          /\ ingestor.nvalues < MaxIngestValues
          /\ ingest_value(id, d)
    /\ OnlyIngestor

FinishStep == finish /\ OnlyIngestor

NextIngest ==
    IngestStorageStep \/ IngestTimestepStep \/ IngestValueStep \/ FinishStep

SpecIngest == Init /\ [][NextIngest]_vars

\* --------------------------------------------------------------- Scopes

OnlyScopes == UNCHANGED <<store_vars, probe, alloc_vars, lazy, ingestor, mvec>>

add_scope(parent, id) ==
    IF parent >= id \/ scopes.map[parent] = None
    THEN scopes' = [scopes EXCEPT !.result = "InvalidParent", !.calls = @ + 1]
    ELSE LET pushed == [scopes.map EXCEPT
                          ![parent].children = Append(@, id)]
         IN scopes' = [map |-> [pushed EXCEPT ![id] = [children |-> <<>>]],
                       result |-> "Ok", calls |-> scopes.calls + 1]

AddScopeStep ==
    /\ scopes.calls < MaxScopeCalls
    /\ \E parent \in ScopeIds, id \in ScopeIds : add_scope(parent, id)
    /\ OnlyScopes

NextScopes == AddScopeStep

SpecScopes == Init /\ [][NextScopes]_vars

\* ----------------------------------------------------------- VarMmapVec

OnlyVec == UNCHANGED <<store_vars, probe, alloc_vars, lazy, ingestor, scopes>>

\* The sizes of the items pushed: what write_variable writes and returns.
ItemSizes == {1024, 3050, MaxItemSize}

\* max_size(meta) less the bytes written: a ValueChange writes three varints
\* of 1 to 10 bytes each and its qits, and max_size counts 10 for each.
Slacks == {0, 27}

\* The bytes of the n-th item pushed, of the given size.
ItemBytes(n, size) == [i \in 1..size |-> n]

\* The condition under which push reallocates first.
push_reallocs(offset, max_size, cap) == offset + max_size >= cap

\* realloc: the capacity doubles, the file grows with zeros and is mapped anew.
realloc(v) ==
    [v EXCEPT !.cap = 2 * @,
              !.mapping = @ \o [i \in 1..v.cap |-> 0]]

\* push(meta, data): write_variable gets &mut self.mapping[self.offset..] and
\* panics when the item does not fit into it.
VarMmapVec_push(max_size, item) ==
    LET v == IF push_reallocs(mvec.offset, max_size, mvec.cap)
             THEN realloc(mvec) ELSE mvec
        offset == v.offset
    IN /\ ~mvec.panicked
       /\ mvec' =
            IF Len(item) > v.cap - offset
            THEN [v EXCEPT !.panicked = TRUE]
            ELSE [v EXCEPT !.mapping = WriteAt(@, offset, item),
                           !.offset = @ + Len(item),
                           !.pushed = Append(@, [offset |-> offset,
                                                 item |-> item])]

\* get_at(meta, offset) for an item of `size` bytes
get_at(offset, size) == Slice(mvec.mapping, offset, size)

PushStep ==
    /\ Len(mvec.pushed) < MaxPushes
    /\ \E size \in ItemSizes, slack \in Slacks :
          VarMmapVec_push(size + slack, ItemBytes(Len(mvec.pushed) + 1, size))
    /\ OnlyVec

NextVec == PushStep

SpecVec == Init /\ [][NextVec]_vars

\* ----------------------------------------------------------- LazyModify

\* `if !self.modified.load(Ordering::Acquire)` of modify
first_check(modified) == ~modified

\* A modify that does not look again once it has the lock.
second_check_skipped(modified) == TRUE

\* `if !self.modified.load(Ordering::Relaxed)` of modify, under the lock
second_check(modified) == ~modified

\* A deref that does not look at `modified`.
deref_unchecked(modified) == FALSE

\* `if !self.modified.load(Ordering::Acquire)` of deref
deref_check(modified) == ~modified

LazyAt(t, pc) == lazy.pc[t] = pc

\* The frame of a step of SpecLazy.
OnlyLazy == UNCHANGED <<store_vars, probe, alloc_vars, ingestor, scopes, mvec>>

\* A thread calls modify or deref.
L_call(t) ==
    /\ LazyAt(t, "idle")
    /\ lazy.calls < MaxLazyCalls
    /\ \E fn \in {"m_load", "d_load"} :
          lazy' = [lazy EXCEPT !.pc[t] = fn, !.got[t] = "none",
                               !.calls = @ + 1]

\* modify: the first load of `modified` (lazy.rs:26)
L_load(t) ==
    /\ LazyAt(t, "m_load")
    /\ lazy' = [lazy EXCEPT !.pc[t] =
           IF first_check(lazy.modified) THEN "m_lock" ELSE "m_read"]

\* modify: self.lock.lock().unwrap() (lazy.rs:27)
L_lock(t) ==
    /\ LazyAt(t, "m_lock")
    /\ lazy.holder = 0
    /\ lazy' = IF lazy.poisoned
               THEN [lazy EXCEPT !.pc[t] = "idle", !.got[t] = "panic"]
               ELSE [lazy EXCEPT !.pc[t] = "m_recheck", !.holder = t]

\* modify: the second load, and mem::replace taking the value out
\* (lazy.rs:28-31); a thread that raced falls through and drops the guard.
L_recheck(t) ==
    /\ LazyAt(t, "m_recheck")
    /\ lazy' = IF second_check(lazy.modified)
               THEN [lazy EXCEPT !.pc[t] = "m_closure", !.value = "uninit"]
               ELSE [lazy EXCEPT !.pc[t] = "m_read", !.holder = 0,
                                 !.raced = TRUE]

\* modify: the closure runs (lazy.rs:34); if it panics the guard is dropped
\* in the unwinding, which poisons the lock.
L_closure(t) ==
    /\ LazyAt(t, "m_closure")
    /\ \/ lazy' = [lazy EXCEPT !.pc[t] = "m_write", !.runs = @ + 1]
       \/ lazy' = [lazy EXCEPT !.pc[t] = "idle", !.got[t] = "panic",
                               !.runs = @ + 1, !.holder = 0,
                               !.poisoned = TRUE]

\* modify: the new value is written (lazy.rs:35-37)
L_write(t) ==
    /\ LazyAt(t, "m_write")
    /\ lazy' = [lazy EXCEPT !.pc[t] = "m_store", !.value = "modified"]

\* modify: modified.store(true, Release), then the guard is dropped
\* (lazy.rs:38-42)
L_store(t) ==
    /\ LazyAt(t, "m_store")
    /\ lazy' = [lazy EXCEPT !.pc[t] = "m_read", !.modified = TRUE,
                            !.holder = 0]

\* modify, deref: assume_init_ref() of the value (lazy.rs:44, 56)
L_read(t) ==
    /\ LazyAt(t, "m_read") \/ LazyAt(t, "d_read")
    /\ lazy' = [lazy EXCEPT !.pc[t] = "idle", !.got[t] = lazy.value]

\* deref: the load of `modified` and the panic (lazy.rs:52-54)
L_deref(t) ==
    /\ LazyAt(t, "d_load")
    /\ lazy' = IF deref_check(lazy.modified)
               THEN [lazy EXCEPT !.pc[t] = "idle", !.got[t] = "panic"]
               ELSE [lazy EXCEPT !.pc[t] = "d_read"]

NextLazy ==
    \E t \in Threads :
        \/ L_call(t) /\ OnlyLazy
        \/ L_load(t) /\ OnlyLazy
        \/ L_lock(t) /\ OnlyLazy
        \/ L_recheck(t) /\ OnlyLazy
        \/ L_closure(t) /\ OnlyLazy
        \/ L_write(t) /\ OnlyLazy
        \/ L_store(t) /\ OnlyLazy
        \/ L_read(t) /\ OnlyLazy
        \/ L_deref(t) /\ OnlyLazy

SpecLazy == Init /\ [][NextLazy]_vars

\* SpecThreads: MaxThreads threads share one allocator.  A call is cut where
\* another thread can see or change what it works on: at each atomic access
\* of ALLOCATED_SIZE, at each critical section of `mappings`, at each call of
\* Global and at the creation of a mapping.  An allocation is with one
\* thread at a time: a thread takes it out of `held` for the length of its
\* grow or deallocate.
ThreadSizes == {4096, MMAP_THRESHOLD}

At(t, pc) == threads[t].pc = pc

Goto(t, pc) == threads' = [threads EXCEPT ![t].pc = pc]

Return(t) == threads' = [threads EXCEPT ![t] = Idle]

\* Addresses taken: those of InUse and the mappings made but not yet inserted.
InUseNow ==
    InUse \cup {threads[t].ptr : t \in {u \in Threads : threads[u].pc \in {"insert", "add"}}}

InFlight == Cardinality({t \in Threads : ~At(t, "idle")})

Allocation(th) ==
    [ptr |-> th.ptr, size |-> th.size, align |-> 1, backing |-> th.backing]

\* allocate: should_mmap(layout.size()) picks the path (mmap_alloc.rs:92).
T_allocate(t) ==
    /\ At(t, "idle")
    /\ alloc_calls < MaxThreadCalls
    /\ Len(held) + InFlight < MaxLive
    /\ mem_info # Unread
    /\ \E size \in ThreadSizes :
          threads' = [threads EXCEPT ![t] =
              [Idle EXCEPT !.pc = IF should_mmap(size) THEN "mmap" ELSE "heap_add",
                           !.size = size]]
    /\ Called
    /\ UNCHANGED <<ALLOCATED_SIZE, mem_info, mappings, heap, held, misused, wedged>>

\* ALLOCATED_SIZE.fetch_add on the heap path (mmap_alloc.rs:100)
T_heap_add(t) ==
    /\ At(t, "heap_add")
    /\ ALLOCATED_SIZE' = ALLOCATED_SIZE + threads[t].size
    /\ Goto(t, "heap_alloc")
    /\ UNCHANGED <<mem_info, mappings, heap, held, misused, alloc_calls, wedged>>

\* Global.allocate(layout) (mmap_alloc.rs:101)
T_heap_alloc(t) ==
    /\ At(t, "heap_alloc")
    /\ \/ \E ptr \in Addrs \ InUseNow :
             /\ heap' = heap \cup {[ptr |-> ptr, size |-> threads[t].size]}
             /\ held' = Append(held,
                    [ptr |-> ptr, size |-> threads[t].size, align |-> 1,
                     backing |-> "heap"])
       \/ UNCHANGED <<heap, held>>
    /\ Return(t)
    /\ UNCHANGED <<ALLOCATED_SIZE, mem_info, mappings, misused, alloc_calls, wedged>>

\* allocate_mmap up to the mapping: tempfile, set_len, map_mut (mmap_alloc.rs:56-70)
T_mmap(t) ==
    /\ At(t, "mmap")
    /\ \/ \E ptr \in Addrs \ InUseNow :
             threads' = [threads EXCEPT ![t].pc = "insert", ![t].ptr = ptr]
       \/ Return(t)
    /\ UNCHANGED <<ALLOCATED_SIZE, mem_info, mappings, heap, held, misused,
                   alloc_calls, wedged>>

\* self.mappings.lock().unwrap().insert(ptr, (f, mapping)) (mmap_alloc.rs:72)
T_insert(t) ==
    /\ At(t, "insert")
    /\ ~wedged
    /\ mappings' = Insert(mappings,
           Entry(threads[t].ptr, threads[t].size, threads[t].ptr, threads[t].size))
    /\ Goto(t, "add")
    /\ UNCHANGED <<ALLOCATED_SIZE, mem_info, heap, held, misused, alloc_calls, wedged>>

\* ALLOCATED_SIZE.fetch_add and the return of allocate_mmap (mmap_alloc.rs:74-75)
T_add(t) ==
    /\ At(t, "add")
    /\ ALLOCATED_SIZE' = ALLOCATED_SIZE + threads[t].size
    /\ held' = Append(held,
           [ptr |-> threads[t].ptr, size |-> threads[t].size, align |-> 1,
            backing |-> "mmap"])
    /\ Return(t)
    /\ UNCHANGED <<mem_info, mappings, heap, misused, alloc_calls, wedged>>

\* deallocate: ALLOCATED_SIZE.fetch_update (mmap_alloc.rs:106-112)
T_deallocate(t) ==
    /\ At(t, "idle")
    /\ alloc_calls < MaxThreadCalls
    /\ \E i \in 1..Len(held) :
          /\ threads' = [threads EXCEPT ![t] =
                 [Idle EXCEPT !.pc = "remove", !.ptr = held[i].ptr,
                              !.size = held[i].size, !.backing = held[i].backing]]
          /\ ALLOCATED_SIZE' =
                 IF held[i].size > ALLOCATED_SIZE THEN 0
                 ELSE ALLOCATED_SIZE - held[i].size
          /\ held' = Without(held, i)
    /\ Called
    /\ UNCHANGED <<mem_info, mappings, heap, misused, wedged>>

\* self.mappings.lock().unwrap().remove(&ptr) and the drop of what it
\* returned, before the guard is dropped (mmap_alloc.rs:114)
T_remove(t) ==
    /\ At(t, "remove")
    /\ ~wedged
    /\ IF threads[t].ptr \in Keys
       THEN /\ mappings' = Remove(mappings, threads[t].ptr)
            /\ Return(t)
       ELSE /\ Goto(t, "free")
            /\ UNCHANGED mappings
    /\ UNCHANGED <<ALLOCATED_SIZE, mem_info, heap, held, misused, alloc_calls, wedged>>

\* Global.deallocate(ptr, layout) (mmap_alloc.rs:115)
T_free(t) ==
    /\ At(t, "free")
    /\ heap' = GlobalFree(heap, threads[t].ptr)
    /\ misused' = (misused \/ ~OwnedByGlobal(threads[t].ptr))
    /\ Return(t)
    /\ UNCHANGED <<ALLOCATED_SIZE, mem_info, mappings, held, alloc_calls, wedged>>

\* grow is called (mmap_alloc.rs:119)
T_grow(t) ==
    /\ At(t, "idle")
    /\ alloc_calls < MaxThreadCalls
    /\ mem_info # Unread
    /\ \E i \in 1..Len(held), new_size \in ThreadSizes :
          /\ new_size >= held[i].size
          /\ threads' = [threads EXCEPT ![t] =
                 [pc |-> "grow", ptr |-> held[i].ptr, size |-> held[i].size,
                  backing |-> held[i].backing, new_size |-> new_size]]
          /\ held' = Without(held, i)
    /\ Called
    /\ UNCHANGED <<ALLOCATED_SIZE, mem_info, mappings, heap, misused, wedged>>

\* The body of grow, all of it under the guard taken at mmap_alloc.rs:120.
T_grow_locked(t) ==
    LET th == threads[t]
        back(ptr, backing) ==
            held' = Append(held, [ptr |-> ptr, size |-> th.new_size,
                                  align |-> 1, backing |-> backing])
        failed == held' = Append(held, Allocation(th))
    IN /\ At(t, "grow")
       /\ ~wedged
       /\ IF th.ptr \in Keys
          THEN LET e == EntryOf(th.ptr)
               IN /\ \/ failed /\ UNCHANGED mappings
                     \/ /\ failed
                        /\ mappings' = Insert(mappings,
                               Entry(th.ptr, th.new_size, e.base, e.len))
                     \/ \E new_ptr \in Addrs \ InUseNow :
                           /\ mappings' = Insert(mappings,
                                  Entry(th.ptr, th.new_size, new_ptr, th.new_size))
                           /\ back(th.ptr, th.backing)
                  /\ Return(t)
                  /\ UNCHANGED <<heap, misused, wedged>>
          ELSE IF should_mmap(th.new_size)
               THEN \/ /\ failed
                       /\ Return(t)
                       /\ UNCHANGED <<mappings, heap, misused, wedged>>
                    \/ /\ wedged' = TRUE
                       /\ Goto(t, "stuck")
                       /\ UNCHANGED <<mappings, heap, held, misused>>
               ELSE /\ misused' = (misused \/ ~OwnedByGlobal(th.ptr))
                    /\ \/ failed /\ UNCHANGED heap
                       \/ /\ OwnedByGlobal(th.ptr)
                          /\ \E new_ptr \in (Addrs \ InUseNow) \cup {th.ptr} :
                                /\ heap' = GlobalFree(heap, th.ptr) \cup
                                       {[ptr |-> new_ptr, size |-> th.new_size]}
                                /\ back(new_ptr, "heap")
                    /\ Return(t)
                    /\ UNCHANGED <<mappings, wedged>>
       /\ UNCHANGED <<ALLOCATED_SIZE, mem_info, alloc_calls>>

\* The rest of the state is not the allocator's.
Elsewhere == UNCHANGED <<store_vars, probe, aux_vars>>

ThreadStep ==
    \E t \in Threads :
        \/ T_allocate(t) /\ Elsewhere
        \/ T_heap_add(t) /\ Elsewhere
        \/ T_heap_alloc(t) /\ Elsewhere
        \/ T_mmap(t) /\ Elsewhere
        \/ T_insert(t) /\ Elsewhere
        \/ T_add(t) /\ Elsewhere
        \/ T_deallocate(t) /\ Elsewhere
        \/ T_remove(t) /\ Elsewhere
        \/ T_free(t) /\ Elsewhere
        \/ T_grow(t) /\ Elsewhere
        \/ T_grow_locked(t) /\ Elsewhere

NextThreads == MemInfoStep \/ ThreadStep

SpecThreads == Init /\ [][NextThreads]_vars

\* -------------------------------------------------------------- claims

\* The program is between two calls: no call has panicked.
Live == ~panicked

DeclaredIds == {s \in StorageIds : Declared(s)}

\* Every change so far was appended after some push_timesteps.
TimestepsFirst ==
    \A s \in StorageIds : \A k \in 1..Len(appended[s]) :
        appended[s][k].ts # NoTimestep

\* No forest has been pushed yet.
NoForestPush == \A s \in StorageIds : leaves[s] = <<>>

\* combine folded left to right over ls[a + 1 .. b], starting from acc.
RECURSIVE NaiveFold(_, _, _, _)
NaiveFold(ls, a, b, acc) ==
    IF a >= b THEN acc ELSE NaiveFold(ls, a + 1, b, combine(acc, ls[a + 1]))

EmptyArray(s) == LogicArray_new(Info(s).width, 0)

\* C1: after any sequence of leaf pushes, range_query(a..b) on every leaf
\* range 0 <= a < b <= leaf count returns the left-to-right fold of combine over
\* the values originally pushed for leaves a .. b-1 (stated here for the runs
\* in which every change was appended after a push_timesteps).
C1_QueryIsFold ==
    (Live /\ TimestepsFirst) =>
        \A s \in DeclaredIds :
            \A a \in 0..LeafCount(s), b \in 0..LeafCount(s) :
                a < b =>
                    /\ QueryOf(s, a, b).ok
                    /\ QueryOf(s, a, b).combined
                         = NaiveFold(leaves[s], a, b, EmptyArray(s))

\* What iter_storage and get_change give back for a storage.
Decoded(s) ==
    LET it == iter_storage(s)
    IN [k \in 1..Len(it.offsets) |-> get_change(it.offsets[k], Info(s).width)]

\* C2: for any sequence of push_timesteps and push_get calls over the declared
\* storages, iterating a storage with iter_storage and decoding each offset
\* with get_change yields exactly the records appended to it, in order, each
\* with the bytes the caller wrote and the timestep current at the append.
C2_RoundTrip ==
    (Live /\ NoForestPush) =>
        \A s \in DeclaredIds :
            /\ iter_storage(s).ok
            /\ Decoded(s) = appended[s]

\* The record at offset o of a storage of `width` units, as stored in d.
RecordAt(d, o, width) ==
    [index |-> TimestepIndexAt(d, o), bytes |-> PackedAt(d, o, width)]

\* C3: once a change has been appended and filled, no later call changes its
\* timestep index or its packed bytes.
C3_RecordsFrozen ==
    [][Live =>
        \A s \in DeclaredIds :
            \A k \in 1..Len(iter_storage(s).offsets) :
                LET o == iter_storage(s).offsets[k]
                IN RecordAt(data', o, Info(s).width)
                     = RecordAt(data, o, Info(s).width)]_vars

\* C4: after any sequence of push_timesteps calls the timestep table is
\* strictly increasing (a timestep equal to the last one appends nothing).
C4_StrictlyIncreasing ==
    \A i \in 1..Len(timesteps), j \in 1..Len(timesteps) :
        i < j => timesteps[i] < timesteps[j]

\* C5: push_timesteps with a value below the last one fails and changes
\* nothing, so the stored timesteps never decrease.
C5_NeverDecrease ==
    \A i \in 1..Len(timesteps), j \in 1..Len(timesteps) :
        i < j => timesteps[i] <= timesteps[j]

\* C6: after any sequence of completed calls, for every storage and every block of its chain, delta_next is none
\* exactly when the block is the one recorded as the storage's last block, and
\* every other block's delta_next is the byte distance to the storage's next
\* block.
C6_DeltaNextNoneIffLast ==
    Live => \A s \in DeclaredIds :
        LET bs == blocks[s]
        IN /\ bs # <<>>
           /\ Info(s).first_offset = bs[1]
           /\ Info(s).last_offset = bs[Len(bs)]
           /\ \A i \in 1..Len(bs) :
                 LET delta_next == ReadHeader(data, bs[i]).delta_next
                 IN IF bs[i] = Info(s).last_offset
                    THEN i = Len(bs) /\ delta_next = 0
                    ELSE delta_next # 0 /\ delta_next = bs[i + 1] - bs[i]

BlockBytes(s) == HEADER_SIZE + Info(s).bytes_per_change * CHANGES_PER_BLOCK

\* Storage 0 has a second block, and a block of another storage lies between
\* its first two.
C6_Interleaved ==
    /\ Live
    /\ Declared(0)
    /\ Len(blocks[0]) >= 2
    /\ ReadHeader(data, blocks[0][1]).delta_next > BlockBytes(0)

\* The block offsets met following delta_next from off, at most fuel hops.
RECURSIVE ChainFrom(_, _, _)
ChainFrom(d, off, fuel) ==
    LET delta_next == ReadHeader(d, off).delta_next
    IN IF delta_next = 0 \/ fuel = 0 THEN <<off>>
       ELSE <<off>> \o ChainFrom(d, off + delta_next, fuel - 1)

ChainOf(s) == ChainFrom(data, Info(s).first_offset, Len(appended[s]) + 1)

BlocksNeeded(n) ==
    IF n = 0 THEN 1 ELSE (n + CHANGES_PER_BLOCK - 1) \div CHANGES_PER_BLOCK

\* C7: between calls, a storage that has received n appends has max(1, ceil(n / 128)) blocks;
\* following delta_next from its first block visits all of them and ends at
\* last_offset, every block but the last holds 128 records and no block holds
\* more.
C7_BlockCount ==
    Live => \A s \in DeclaredIds :
        LET chain == ChainOf(s)
        IN /\ Len(chain) = BlocksNeeded(Len(appended[s]))
           /\ chain = blocks[s]
           /\ chain[Len(chain)] = Info(s).last_offset
           /\ \A i \in 1..Len(chain) :
                 LET len == ReadHeader(data, chain[i]).len
                 IN /\ len <= CHANGES_PER_BLOCK
                    /\ i < Len(chain) => len = CHANGES_PER_BLOCK

\* 300 appends on storage 0 have given it three blocks.
C7_ThreeBlocks ==
    /\ Live
    /\ Declared(0)
    /\ Len(appended[0]) = 300
    /\ Len(ChainOf(0)) = 3

RECURSIVE SumLens(_, _)
SumLens(d, chain) ==
    IF chain = <<>> THEN 0
    ELSE ReadHeader(d, Head(chain)).len + SumLens(d, Tail(chain))

\* C8: between calls, for every storage, count_of equals the sum of the len
\* fields of the blocks of its chain, equals the number of offsets iter_storage
\* yields, and, the forest having been pushed once per appended change, equals
\* the forest's leaf count, half its physical length.
C8_CountsAgree ==
    Live =>
        \A s \in DeclaredIds :
            /\ count_of(s) = SumLens(data, ChainOf(s))
            /\ iter_storage(s).ok
            /\ Len(iter_storage(s).offsets) = count_of(s)
            /\ Len(vals[s]) = 2 * Len(leaves[s])
            /\ Len(leaves[s]) = Len(appended[s]) => LeafCount(s) = count_of(s)

\* Storage 0 is in its second block with its forest caught up, and another
\* storage holds a change too.
C8_PastOneBlock ==
    /\ Live
    /\ Declared(0) /\ Declared(1)
    /\ count_of(0) > CHANGES_PER_BLOCK
    /\ LeafCount(0) = count_of(0)
    /\ count_of(1) = 1 /\ LeafCount(1) = 1

\* The aggregate slots a query can address hold the combine of their leaves:
\* for a span of 2^j leaves, j >= 1, starting at leaf a (a multiple of 2^j),
\* the slot at physical index 2a + 2^j - 1.
AggregatesHold(s, maxj) ==
    \A j \in 1..maxj : \A a \in 0..Len(leaves[s]) :
        (a % Pow2(j) = 0 /\ a + Pow2(j) <= Len(leaves[s])) =>
            PackedAt(data, vals[s][2 * a + Pow2(j)], Info(s).width)
                = NaiveFold(leaves[s], a + 1, a + Pow2(j), leaves[s][a + 1])

\* The leaves stand at the even indices, in push order, with the values pushed.
LeavesHold(s) ==
    \A i \in 1..Len(leaves[s]) :
        /\ vals[s][2 * i - 1] = iter_storage(s).offsets[i]
        /\ PackedAt(data, vals[s][2 * i - 1], Info(s).width) = leaves[s][i]

MaxLevel == 8

\* C9: after L leaf pushes the forest's array has length 2L with the leaves at
\* the even indices in push order, and every aggregate slot of an aligned,
\* completed span of 2^j leaves holds the combine of exactly those leaves.
C9_ForestLayout ==
    (Live /\ TimestepsFirst) =>
        \A s \in DeclaredIds :
            /\ Len(vals[s]) = 2 * Len(leaves[s])
            /\ LeavesHold(s)
            /\ AggregatesHold(s, MaxLevel)

\* C10: for every a in 0 .. leaf count, also on a forest with no leaves, the
\* query of the empty range [a, a) returns with the accumulator at its empty
\* value rather than failing.
C10_EmptyRangeIsEmpty ==
    Live =>
        \A s \in DeclaredIds : \A a \in 0..LeafCount(s) :
            /\ QueryOf(s, a, a).ok
            /\ QueryOf(s, a, a).combined = EmptyArray(s)

\* C11: add_storage on an id that is already declared fails and leaves that
\* storage's StorageInfo (first and last offset, width, bytes per change,
\* count) and its chain of blocks as they were.
C11_RedeclareRejected ==
    [][\A s \in StorageIds :
          (Declared(s) /\ ncalls'.declares # ncalls.declares) =>
              /\ storage_infos'[s + 1] = storage_infos[s + 1]
              /\ blocks'[s] = blocks[s]]_vars

\* C12: push_get on an id that was never declared fails (it panics on the
\* lookup) without changing the byte store, any StorageInfo or the timestep
\* table.
C12_UnknownStorageNoWrite ==
    [][\A s \in StorageIds :
          (~Declared(s) /\ push_get(s, <<>>)) =>
              /\ panicked'
              /\ UNCHANGED <<data, storage_infos, timesteps,
                             current_timestep_index>>]_vars

\* A push_get on an undeclared id has panicked with a store and a timestep
\* table that are not empty (a forest push panics only on an empty table).
C12_PanickedOnUnknown ==
    /\ panicked
    /\ data # <<>>
    /\ timesteps # <<>>
    /\ \E s \in StorageIds : ~Declared(s)

\* C13: if growing the store fails during a push_get, the call is aborted with
\* the store as it was before: the storage's count and last_offset and the
\* full block's delta_next and len are unchanged.
C13_AllocFailureLeavesStore ==
    [][\A s \in ChainIds :
          push_get_alloc_failure(s) =>
              /\ count_of(s)' = count_of(s)
              /\ Info(s)'.last_offset = Info(s).last_offset
              /\ ReadHeader(data', Info(s).last_offset)
                   = ReadHeader(data, Info(s).last_offset)]_vars

\* C14 as stated: for every valid range over a forest of n leaves the loop
\* ends with start equal to end and has folded at most 2 log2(n) elements,
\* that is k elements with 2^k <= n^2.
C14_AtMostTwoLog ==
    probe.fn = "range_query" =>
        /\ probe.loop.ended
        /\ probe.loop.start = probe.b * 2
        /\ Pow2(Len(probe.loop.skips)) <= probe.n * probe.n

\* C14: for every valid range over a forest of n leaves the loop ends with
\* start equal to end, never past it, every element it reads is one of the
\* 2n elements of the forest, and it folds one element when n = 1 and at most
\* 2 log2(n) elements when n >= 2.
C14_LoopEndsAtEnd ==
    probe.fn = "range_query" =>
        /\ probe.loop.ended
        /\ probe.loop.start = probe.b * 2
        /\ \A i \in 1..Len(probe.loop.nodes) :
              probe.loop.nodes[i] >= 0 /\ probe.loop.nodes[i] < 2 * probe.n
        /\ IF probe.n = 1 THEN Len(probe.loop.skips) = 1
           ELSE Pow2(Len(probe.loop.skips)) <= probe.n * probe.n

\* A range of a forest of more than 16 leaves that takes more than two skips
\* of different sizes.
C14_LongRange ==
    /\ probe.fn = "range_query"
    /\ probe.n > 16
    /\ Len(probe.loop.skips) > 6

\* The range r_start .. r_end does not lie inside the leaves 0 .. leaf_count.
OutOfBounds(r_start, r_end, leaf_count) ==
    \/ r_start.hi = 1 \/ r_end.hi = 1
    \/ r_start.lo > leaf_count \/ r_end.lo > leaf_count

\* C15: a query whose range is outside the leaves of the forest fails without
\* reading any forest element or change record and without modifying the
\* accumulator, whichever way the build treats integer overflow.
C15_OutOfBoundsFails ==
    Live =>
        \A s \in DeclaredIds : \A overflow_checks \in BOOLEAN :
            \A r_start \in Usizes(LeafCount(s) + 1),
               r_end \in Usizes(LeafCount(s) + 1) :
                OutOfBounds(r_start, r_end, LeafCount(s)) =>
                    LET q == range_query_usize(vals[s], Info(s).width, r_start,
                                               r_end, EmptyArray(s), overflow_checks)
                    IN ~q.ok /\ q.reads = 0 /\ q.combined = EmptyArray(s)

Zeros(n) == [i \in 1..n |-> 0]

\* C16: the slice push_get returns covers packed bytes that are all zero, so
\* once the caller has set its first n units the record holds those units and
\* every unwritten unit and every tail bit past width in the last byte is zero.
C16_SliceZeroed ==
    [][\A s \in ChainIds : \A n \in 0..MaxFillWidth :
          (Declared(s) /\ push_get(s, Written(n))) =>
              LET width == Info(s).width
                  r == push_get_store(s)
                  stored == PackedAt(data', r.record, width)
              IN /\ PackedAt(r.data, r.record, width) = Zeros(PackedLen(width))
                 /\ \A i \in 0..(PER_BYTE * PackedLen(width) - 1) :
                       get_unit(stored, i) = IF i < n THEN 3 ELSE 0]_vars

\* A storage wider than one byte holds a record of which only the first two
\* units were set.
C16_PartlyWritten ==
    \E s \in ChainIds :
        /\ Declared(s)
        /\ Info(s).width > PER_BYTE
        /\ count_of(s) = 1
        /\ PackedAt(data, Info(s).first_offset + HEADER_SIZE, Info(s).width)
             = set_units(Zeros(PackedLen(Info(s).width)), Written(2), 2)

\* C17: for each of Two, Four and Nine and every width, setting the unit at an
\* in-range offset and then getting that offset returns the unit set, and the
\* units at all other offsets are unchanged, those in the same byte included.
C17_SetThenGet ==
    probe.fn = "set" =>
        /\ Len(probe.after) = Len(probe.before)
        /\ GetUnit(probe.variant, probe.after, probe.offset) = probe.unit
        /\ \A j \in 0..(PerByteOf(probe.variant) * Len(probe.before) - 1) :
              j # probe.offset =>
                  GetUnit(probe.variant, probe.after, j)
                    = GetUnit(probe.variant, probe.before, j)

\* A Nine unit was set in the middle of an array that spans several bytes,
\* next to units that are not zero.
C17_NineNeighbours ==
    /\ probe.fn = "set"
    /\ probe.variant = "Nine"
    /\ probe.width > 2 * Nine_PER_BYTE
    /\ probe.offset = 2
    /\ probe.unit = 8
    /\ Nine_get_unit(probe.before, 1) = 7
    /\ Nine_get_unit(probe.before, 2) = 5
    /\ Nine_get_unit(probe.after, 3) = 7

\* C18: an allocation request that is served comes from a new file mapping
\* whenever its size exceeds the threshold or twice the cumulative
\* allocation has reached the available memory (either alone suffices),
\* and from the heap otherwise.
C18_MmapOnEitherCondition ==
    [][Len(held') = Len(held) + 1 =>
          LET got == held'[Len(held')]
              size == pad_to_align(got.size, got.align)
          IN (got.backing = "mmap") <=>
                 \/ size > MMAP_THRESHOLD
                 \/ /\ mem_info # NoMemInfo
                    /\ ALLOCATED_SIZE * 2 >= mem_info]_vars

\* The allocations the caller holds that were served by a mapping.
Mapped == {i \in 1..Len(held) : held[i].backing = "mmap"}

\* C19: every grow of a mapping-backed allocation leaves it mapping-backed:
\* it is still in the mapping table afterwards, and Global was neither asked
\* to take the data nor handed its pointer.
C19_StaysMapped ==
    [][\A i \in Mapped, new_size \in AllocSizes, new_ptr \in Addrs,
          outcome \in GrowOutcomes :
          grow(i, new_size, new_ptr, outcome) =>
              /\ held'[i].backing = "mmap"
              /\ held'[i].ptr \in {e.key : e \in mappings'}
              /\ heap' = heap
              /\ ~misused']_vars

\* C20: the mapping table has exactly one entry per live mapping-backed
\* allocation, keyed by the pointer the caller holds, and that pointer is the
\* base of the entry's current mapping.
C20_TableMatchesLive ==
    /\ \A i \in Mapped :
          /\ held[i].ptr \in Keys
          /\ EntryOf(held[i].ptr).base = held[i].ptr
    /\ \A e \in mappings :
          Cardinality({i \in Mapped : held[i].ptr = e.key}) = 1

RECURSIVE LiveSize(_)
\* The sum of the current sizes of the first n allocations the caller holds.
LiveSize(n) == IF n = 0 THEN 0 ELSE held[n].size + LiveSize(n - 1)

\* C25: between calls the cumulative-allocation counter equals the sum of the
\* current sizes of the live allocations (so it is zero when none is live)
\* and is never negative.
C25_CounterIsLiveSize ==
    /\ ALLOCATED_SIZE >= 0
    /\ ALLOCATED_SIZE = LiveSize(Len(held))

\* No thread is inside a call of the allocator.
Quiescent == \A t \in Threads : At(t, "idle")

\* C21: whenever the threads have all returned from their calls, the table
\* holds exactly the live mapping-backed allocations: one entry for each,
\* under the pointer its holder has.
C21_TableIsLiveMappings ==
    Quiescent =>
        /\ Keys = {held[i].ptr : i \in Mapped}
        /\ Cardinality(mappings) = Cardinality(Mapped)

\* C22: every unit of Max::mix(x, y) is the larger of the units of x and of
\* y at that position, for Bit and for Qit chunks.
C22_MaxIsPerUnit ==
    probe.fn = "mix" =>
        \A i \in 0..(PER_CHUNK(probe.kind) - 1) :
            from_chunk(probe.kind, probe.out, i) =
                LET x == from_chunk(probe.kind, probe.lhs, i)
                    y == from_chunk(probe.kind, probe.rhs, i)
                IN IF x >= y THEN x ELSE y

\* C23: however the threads' calls of modify interleave, the closure runs
\* at most once, and once some call has returned a value it has run exactly
\* once, to its end; every call that returns a value returns the modified one.
C23_ModifiedOnce ==
    /\ lazy.runs <= 1
    /\ \A t \in Threads :
          /\ lazy.got[t] \in {"none", "panic", "modified"}
          /\ lazy.got[t] = "modified" =>
                /\ lazy.runs = 1
                /\ lazy.modified
                /\ lazy.value = "modified"

\* Two threads were in modify at once: one ran the closure, the other found
\* the value modified after it got the lock, and both returned it.
C23_BothReturned ==
    /\ lazy.raced
    /\ \A t \in Threads : lazy.got[t] = "modified"

\* C24: a call never hands out the value while it is taken out; a deref
\* made while no modify has completed panics; and once a closure has
\* panicked every call that ends, ends in a panic.
C24_NeverReadsUninit ==
    [][\A t \in Threads :
          lazy.got'[t] # lazy.got[t] /\ lazy.got'[t] # "none" =>
              /\ lazy.got'[t] # "uninit"
              /\ ~lazy.modified => lazy.got'[t] = "panic"
              /\ lazy.poisoned' => lazy.got'[t] = "panic"]_vars

\* A closure panicked in one thread, and a later call of another thread
\* failed as well.
C24_PoisonedPanics ==
    /\ lazy.poisoned
    /\ lazy.value = "uninit"
    /\ \A t \in Threads : lazy.got[t] = "panic"

\* C26: every record that push_get has stored carries a timestep index that
\* is an index into the timestep table, so get_change on it does not panic.
C26_TimestepIndexValid ==
    (Live /\ NoForestPush) =>
        \A s \in DeclaredIds :
            LET offsets == iter_storage(s).offsets
            IN \A k \in 1..Len(offsets) :
                  /\ TimestepIndexAt(data, offsets[k]) < Len(timesteps)
                  /\ get_change(offsets[k], Info(s).width) # Panic

\* An add_storage or a push_get (with any units) for the storage s.
Touches(s) ==
    \/ \E w \in Widths : add_storage(s, w)
    \/ \E units \in {<<0>>, <<1>>} : push_get(s, units)

\* C27: a declaration or an append for one storage leaves every other
\* storage's StorageInfo, and every byte of each block of its chain (headers
\* and records), as they were.
C27_OtherSignalsUntouched ==
    [][\A s \in ChainIds, other \in ChainIds :
          (s # other /\ Declared(other) /\ Touches(s)) =>
              /\ Info(other)' = Info(other)
              /\ \A k \in 1..Len(ChainOf(other)) :
                    Slice(data', ChainOf(other)[k], BlockBytes(other)) =
                        Slice(data, ChainOf(other)[k], BlockBytes(other))]_vars

\* Storage 0 has got its second block behind a block of another storage that
\* holds a record: the append that made it had to patch a header in the
\* middle of the store.
C27_PatchedBetweenOthers ==
    /\ C6_Interleaved
    /\ \E other \in ChainIds \ {0} :
          /\ Declared(other)
          /\ count_of(other) > 0
          /\ Info(other).first_offset < blocks[0][2]
          /\ Info(other).first_offset > blocks[0][1]

\* C28: no ingest_value on a declared storage fails at the block buffer, and
\* after finish load_storage calls back once for each value ingested for the
\* storage, in order, with the timestep of its ingestion and its bytes.
C28_LoadReturnsIngested ==
    /\ ~ingestor.panicked
    /\ ingestor.finished =>
          \A id \in IngestedIds :
              LET calls == load_storage(id)
                  values == ingestor.ingested[id]
              IN /\ Len(calls) = Len(values)
                 /\ \A k \in 1..Len(values) :
                       /\ calls[k].ts = values[k].ts
                       /\ SubSeq(calls[k].data, 1, Len(values[k].data))
                              = values[k].data

\* The places (scope, position) where id is listed as a child in the map m.
ListedAt(m, id) ==
    {pos \in ScopeIds \X (1..MaxScopeCalls) :
        /\ m[pos[1]] # None
        /\ pos[2] <= Len(m[pos[1]].children)
        /\ m[pos[1]].children[pos[2]] = id}

\* C29: after every add_scope each scope but the root is listed as a child
\* exactly once, by an existing scope with a smaller id, and a call that
\* failed with InvalidParent left the scopes as they were.
C29_ScopesFormTree ==
    [][/\ \A id \in ScopeIds \ {ROOT_SCOPE} :
             scopes'.map[id] # None =>
                 /\ Cardinality(ListedAt(scopes'.map, id)) = 1
                 /\ \A pos \in ListedAt(scopes'.map, id) : pos[1] < id
       /\ scopes'.result = "InvalidParent" => scopes'.map = scopes.map]_vars

\* C30: no push fails for want of room after its one doubling; the offsets
\* the pushes returned are strictly increasing, each is where its item
\* starts, and get_at on it reads the item back after all later pushes.
C30_PushedItemsReadBack ==
    /\ ~mvec.panicked
    /\ \A k \in 1..Len(mvec.pushed) :
          LET p == mvec.pushed[k]
          IN /\ p.offset + Len(p.item) <= mvec.cap
             /\ get_at(p.offset, Len(p.item)) = p.item
             /\ k > 1 => mvec.pushed[k - 1].offset < p.offset

====
